---- MODULE Spec2Model ----
(***************************************************************************)
(* Iridescence: the WebGL shader background of src/Iridescence.js.         *)
(*                                                                         *)
(* The model follows one instance of the class from the end of its         *)
(* constructor on: the frame callback (animate), the window's resize and   *)
(* mousemove events.                                                       *)
(*                                                                         *)
(* Numbers.  JavaScript numbers are IEEE-754 doubles.  Every double the    *)
(* accumulators uTime and colorLerp take is a multiple of 2^-61 (the unit  *)
(* in the last place of 0.0025), so such a double is held as the integer   *)
(* K with value K * 2^-61, written in four base-2^20 limbs, least          *)
(* significant first, and += is the exact sum rounded to 53 significant    *)
(* bits, ties to even.  A colour channel is held in units of 1/510 (a byte *)
(* n/255 is 2n, the default 0.5, 0.6, 0.8 is 255, 306, 408); a bound       *)
(* colour channel is held in units of 1/(510 * 2^61), and the products and *)
(* the sum of lerp are taken exactly.  A pointer offset is a reduced       *)
(* fraction.                                                               *)
(***************************************************************************)
EXTENDS Integers, Sequences, FiniteSets, TLC

(***************************************************************************)
(* Bounds                                                                  *)
(***************************************************************************)
\* frames counted (and uTime tracked) up to this many; later frames leave
\* the counter and the clock where they are
MaxFrames == 403

(***************************************************************************)
(* Doubles as limbs                                                        *)
(***************************************************************************)
Base == 1048576

Zero == <<0, 0, 0, 0>>

\* 1.0 = 2^61 * 2^-61
One == <<0, 0, 0, 2>>

RECURSIVE AddLimbs(_, _, _, _)
AddLimbs(a, b, i, carry) ==
    IF i > 4 THEN <<>>
    ELSE LET s == a[i] + b[i] + carry
         IN  IF i = 4 THEN <<s>>
             ELSE <<s % Base>> \o AddLimbs(a, b, i + 1, s \div Base)

BigAdd(a, b) == AddLimbs(a, b, 1, 0)

RECURSIVE MulLimbs(_, _, _, _)
MulLimbs(a, n, i, carry) ==
    LET p == a[i] * n + carry
    IN  IF i = 4 THEN <<p>>
        ELSE <<p % Base>> \o MulLimbs(a, n, i + 1, p \div Base)

\* a * n for a small non-negative integer n (at most 510)
BigMulSmall(a, n) == MulLimbs(a, n, 1, 0)

RECURSIVE SubLimbs(_, _, _, _)
SubLimbs(a, b, i, borrow) ==
    LET s == a[i] - b[i] - borrow
    IN  IF i = 4 THEN <<s>>
        ELSE IF s < 0 THEN <<s + Base>> \o SubLimbs(a, b, i + 1, 1)
             ELSE <<s>> \o SubLimbs(a, b, i + 1, 0)

\* a - b, for a >= b
BigSub(a, b) == SubLimbs(a, b, 1, 0)

RECURSIVE LessFrom(_, _, _)
LessFrom(a, b, i) ==
    IF i = 0 THEN FALSE
    ELSE IF a[i] # b[i] THEN a[i] < b[i]
         ELSE LessFrom(a, b, i - 1)

BigLess(a, b) == LessFrom(a, b, 4)

BigGeq(a, b) == ~BigLess(a, b)

RECURSIVE BitLenSmall(_)
BitLenSmall(n) == IF n = 0 THEN 0 ELSE 1 + BitLenSmall(n \div 2)

BitLen(a) ==
    IF a[4] # 0 THEN 60 + BitLenSmall(a[4])
    ELSE IF a[3] # 0 THEN 40 + BitLenSmall(a[3])
    ELSE IF a[2] # 0 THEN 20 + BitLenSmall(a[2])
    ELSE BitLenSmall(a[1])

RECURSIVE Pow2(_)
Pow2(d) == IF d = 0 THEN 1 ELSE 2 * Pow2(d - 1)

\* the exact value s rounded to a double: 53 significant bits, ties to even
\* (the dropped bits lie in the lowest limb for every value below 2048)
RoundDouble(s) ==
    LET d == BitLen(s) - 53
    IN  IF d <= 0 THEN s
        ELSE LET q    == Pow2(d)
                 rem  == s[1] % q
                 down == <<s[1] - rem, s[2], s[3], s[4]>>
                 odd  == (s[1] \div q) % 2 = 1
             IN  IF rem * 2 > q \/ (rem * 2 = q /\ odd)
                 THEN BigAdd(down, <<q, 0, 0, 0>>)
                 ELSE down

\* the double a + b of two non-negative doubles
FAdd(a, b) == RoundDouble(BigAdd(a, b))

\* the double nearest to 0.0025, the literal of this.cycleSpeed
cycleSpeed == <<922747, 922746, 5242, 0>>

\* the double nearest to 0.01, the literal added to this.uTime
TimeStep == <<545260, 545259, 20971, 0>>

(***************************************************************************)
(* JavaScript values of the options object                                 *)
(***************************************************************************)
Undefined == [tag |-> "undefined"]

\* a string, as the sequence of its characters
Str(chars) == [tag |-> "string", s |-> chars]

\* an array: an RGB triplet (channels in units of 1/510) or a list of colours
Arr(items) == [tag |-> "array", v |-> items]

\* a number, in hundredths
Num(hundredths) == [tag |-> "number", n |-> hundredths]

Bool(b) == [tag |-> "boolean", b |-> b]

\* ToBoolean, as || and if apply it
Truthy(x) ==
    CASE x.tag = "undefined" -> FALSE
      [] x.tag = "string"    -> Len(x.s) > 0
      [] x.tag = "number"    -> x.n # 0
      [] x.tag = "boolean"   -> x.b
      [] OTHER               -> TRUE

(***************************************************************************)
(* hexToRgb                                                                *)
(***************************************************************************)
HexDigits ==
    [c \in {"0", "1", "2", "3", "4", "5", "6", "7", "8", "9",
            "a", "b", "c", "d", "e", "f", "A", "B", "C", "D", "E", "F"} |->
        CASE c = "0" -> 0  [] c = "1" -> 1  [] c = "2" -> 2  [] c = "3" -> 3
          [] c = "4" -> 4  [] c = "5" -> 5  [] c = "6" -> 6  [] c = "7" -> 7
          [] c = "8" -> 8  [] c = "9" -> 9
          [] c \in {"a", "A"} -> 10 [] c \in {"b", "B"} -> 11
          [] c \in {"c", "C"} -> 12 [] c \in {"d", "D"} -> 13
          [] c \in {"e", "E"} -> 14 [] c \in {"f", "F"} -> 15]

IsHexDigit(c) == c \in DOMAIN HexDigits

\* String.prototype.replace(pattern, '') with a string pattern: the first
\* occurrence only
RECURSIVE ReplaceFirst(_, _)
ReplaceFirst(chars, c) ==
    IF chars = <<>> THEN <<>>
    ELSE IF Head(chars) = c THEN Tail(chars)
         ELSE <<Head(chars)>> \o ReplaceFirst(Tail(chars), c)

RECURSIVE SkipSpace(_)
SkipSpace(chars) ==
    IF chars # <<>> /\ Head(chars) = " " THEN SkipSpace(Tail(chars)) ELSE chars

\* the value of the longest prefix of hex digits, with the number of digits
RECURSIVE HexPrefix(_, _, _)
HexPrefix(chars, acc, count) ==
    IF chars # <<>> /\ IsHexDigit(Head(chars))
    THEN HexPrefix(Tail(chars), acc * 16 + HexDigits[Head(chars)], count + 1)
    ELSE [value |-> acc, digits |-> count]

\* parseInt(string, 16): leading white space, a sign, a 0x prefix, then the
\* longest run of hex digits; NaN when there is none
ParseInt16(chars) ==
    LET t      == SkipSpace(chars)
        neg    == t # <<>> /\ Head(t) = "-"
        u      == IF t # <<>> /\ Head(t) \in {"-", "+"} THEN Tail(t) ELSE t
        w      == IF Len(u) >= 2 /\ u[1] = "0" /\ u[2] \in {"x", "X"}
                  THEN Tail(Tail(u)) ELSE u
        p      == HexPrefix(w, 0, 0)
    IN  IF p.digits = 0 THEN [nan |-> TRUE, value |-> 0]
        ELSE [nan |-> FALSE, value |-> IF neg THEN 0 - p.value ELSE p.value]

\* ToInt32 of the operand of >> and &: NaN is 0 (the strings of HexStrings
\* have at most 7 digits, so the value is its own 32-bit image)
ToInt32(p) == IF p.nan THEN 0 ELSE p.value

\* (x >> k) & 255 on a two's complement integer
ShiftMask(x, k) == (x \div Pow2(k)) % 256

\* a byte b as the channel b / 255
Over255(b) == 2 * b

hexToRgb(hex) ==
    LET bigint == ToInt32(ParseInt16(ReplaceFirst(hex, "#")))
        r      == ShiftMask(bigint, 16)
        g      == ShiftMask(bigint, 8)
        b      == ShiftMask(bigint, 0)
    IN  <<Over255(r), Over255(g), Over255(b)>>

(***************************************************************************)
(* Inputs: the options a page passes, the platform it runs on, the layout  *)
(* and the pointer events                                                  *)
(***************************************************************************)
HexPink   == <<"#", "F", "F", "9", "F", "F", "C">>
HexViolet == <<"#", "5", "2", "2", "7", "F", "F">>
HexBare   == <<"5", "2", "2", "7", "F", "F">>
HexLilac  == <<"#", "B", "1", "9", "E", "E", "F">>
HexShort  == <<"#", "F", "F", "F">>
HexBad    == <<"#", "z", "z", "z">>

HexStrings == {HexPink, HexViolet, HexBare, HexLilac, HexShort, HexBad}

Options(color, colors, mouseReact) ==
    [color |-> color, colors |-> colors, speed |-> Undefined,
     amplitude |-> Undefined, mouseReact |-> mouseReact]

OptionSets ==
    { Options(Undefined, Undefined, Undefined),
      Options(Str(HexPink), Undefined, Bool(FALSE)),
      Options(Str(HexBad), Undefined, Bool(FALSE)),
      Options(Undefined, Arr(<<>>), Bool(FALSE)),
      Options(Undefined, Arr(<<Str(HexBare)>>), Bool(FALSE)),
      Options(Arr(<<510, 0, 0>>), Arr(<<Str(HexViolet)>>), Bool(FALSE)),
      Options(Undefined, Arr(<<Str(HexViolet), Str(HexPink)>>), Undefined),
      Options(Undefined, Arr(<<Str(HexBad), Str(HexShort)>>), Bool(FALSE)),
      Options(Str(HexPink),
              Arr(<<Str(HexBare), Arr(<<0, 510, 255>>), Str(HexLilac)>>),
              Bool(FALSE)),
      [Options(Undefined, Undefined, Bool(FALSE))
          EXCEPT !.speed = Num(250), !.amplitude = Num(0)],
      [Options(Undefined, Undefined, Bool(FALSE))
          EXCEPT !.speed = Num(50), !.amplitude = Num(25)] }

\* what the browser gives: a WebGL context or none, each shader compiling or
\* not, the program linking or not
Platform(context, vs, fs, link) ==
    [context |-> context, vs |-> vs, fs |-> fs, link |-> link]

Platforms ==
    { Platform(TRUE, TRUE, TRUE, TRUE),
      Platform(FALSE, TRUE, TRUE, TRUE),
      Platform(TRUE, FALSE, TRUE, TRUE),
      Platform(TRUE, TRUE, FALSE, TRUE),
      Platform(TRUE, TRUE, TRUE, FALSE) }

\* container.offsetWidth, container.offsetHeight
Layouts == {<<300, 150>>, <<3, 1>>}

\* window.devicePixelRatio in halves; 0 stands for a missing or zero ratio
DprHalves == {0, 3, 4}

\* canvas.getBoundingClientRect(): a 2 x 2 box at (1, 1), and the box of a
\* canvas that has no size
Box == [left |-> 1, top |-> 1, width |-> 2, height |-> 2]

EmptyBox == [left |-> 2, top |-> 2, width |-> 0, height |-> 0]

\* a mousemove: clientX, clientY and the canvas rectangle at that moment
Move(x, y, rect) == [clientX |-> x, clientY |-> y, rect |-> rect]

MouseMoves ==
    { Move(1, 1, Box), Move(2, 2, Box), Move(3, 3, Box), Move(0, 4, Box),
      Move(3, 3, EmptyBox) }

(***************************************************************************)
(* Quotients of the pointer arithmetic                                     *)
(***************************************************************************)
RECURSIVE Gcd(_, _)
Gcd(a, b) == IF b = 0 THEN a ELSE Gcd(b, a % b)

Abs(a) == IF a < 0 THEN 0 - a ELSE a

Sign(a) == IF a < 0 THEN 0 - 1 ELSE IF a > 0 THEN 1 ELSE 0

\* a / b for integers a and b >= 0, in lowest terms; division by zero gives
\* d = 0 with n = 1 for Infinity, -1 for -Infinity and 0 for NaN
Div(a, b) ==
    IF b = 0 THEN [n |-> Sign(a), d |-> 0]
    ELSE LET g == Gcd(Abs(a), b) IN [n |-> a \div g, d |-> b \div g]

\* 1.0 - q
OneMinus(q) ==
    IF q.d = 0 THEN [n |-> 0 - q.n, d |-> 0]
    ELSE [n |-> q.d - q.n, d |-> q.d]

Half == [n |-> 1, d |-> 2]

(***************************************************************************)
(* State                                                                   *)
(***************************************************************************)
VARIABLES
    options,    \* the options object the constructor was called with
    platform,   \* what the browser provides
    this,       \* the fields of the instance
    gl,         \* the context's state: uniform values, viewport, blending
    window,     \* the listeners registered on window and the pending
                \* requestAnimationFrame callbacks
    console,    \* the messages given to console.error
    status,     \* how construction ended: "running", "nogl" (the constructor
                \* returned before init) or "threw" (a TypeError left it)
    rafId,      \* this.rafId, the handle of the pending frame callback: 0
                \* before the first request, then 1 and 2 in turn (handles
                \* are fresh, so consecutive ones differ)
    frames,     \* executions of the frame body so far, up to MaxFrames
    lastMove,   \* the last mousemove dispatched on window, with the canvas
                \* rectangle at that moment
    lastResize, \* the container size and the pixel ratio the last call of
                \* resize read
    other       \* a second instance on the same page, once there is one:
                \* its fields, context, listeners and pending callbacks

vars == <<options, platform, this, gl, window, console, status, rafId,
          frames, lastMove, lastResize, other>>

\* the program state the methods work on
World ==
    [this |-> this, gl |-> gl, window |-> window, console |-> console,
     status |-> status, rafId |-> rafId, frames |-> frames]

\* the channel c / 510 in units of 1 / (510 * 2^61)
Exact(c) == <<0, 0, 0, 2 * c>>

ExactRgb(rgb) == <<Exact(rgb[1]), Exact(rgb[2]), Exact(rgb[3])>>

\* the uniforms of a freshly linked program are zero
GlInit ==
    [uTime |-> Zero, uColor |-> <<Zero, Zero, Zero>>,
     uResolution |-> <<0, 0, 0>>,
     uMouse |-> [x |-> [n |-> 0, d |-> 1], y |-> [n |-> 0, d |-> 1]],
     uAmplitude |-> 0, uSpeed |-> 0,
     viewport |-> <<0, 0>>, blend |-> FALSE]

(***************************************************************************)
(* resize                                                                  *)
(***************************************************************************)
\* window.devicePixelRatio || 1, in halves
PixelRatio(dpr) == IF dpr = 0 THEN 2 ELSE dpr

\* the value an assignment to canvas.width keeps: the product truncated to
\* an integer
BackingSize(layout, dpr) ==
    [width  |-> (layout[1] * PixelRatio(dpr)) \div 2,
     height |-> (layout[2] * PixelRatio(dpr)) \div 2]

\* resize that also requests a frame callback
resizeRequestsFrame(w, layout, dpr) ==
    LET canvas == BackingSize(layout, dpr)
        w1 == [w EXCEPT !.this.canvas = canvas,
                        !.gl.viewport = <<canvas.width, canvas.height>>,
                        !.window.raf = @ + 1]
    IN  IF w1.this.program = "program"
        THEN [w1 EXCEPT !.gl.uResolution = <<canvas.width, canvas.height, 1>>]
        ELSE w1

\* resize that leaves the resolution uniform as it is
resizeKeepsUniform(w, layout, dpr) ==
    LET canvas == BackingSize(layout, dpr)
    IN  [w EXCEPT !.this.canvas = canvas,
                  !.gl.viewport = <<canvas.width, canvas.height>>]

\* resize that starts the palette blend again
resizeRestartsBlend(w, layout, dpr) ==
    LET canvas == BackingSize(layout, dpr)
        w1 == [w EXCEPT !.this.canvas = canvas,
                        !.this.colorLerp = Zero,
                        !.gl.viewport = <<canvas.width, canvas.height>>]
    IN  IF w1.this.program = "program"
        THEN [w1 EXCEPT !.gl.uResolution = <<canvas.width, canvas.height, 1>>]
        ELSE w1

resize(w, layout, dpr) ==
    LET canvas == BackingSize(layout, dpr)
        w1 == [w EXCEPT !.this.canvas = canvas,
                        !.gl.viewport = <<canvas.width, canvas.height>>]
    IN  IF w1.this.program = "program"
        THEN [w1 EXCEPT !.gl.uResolution = <<canvas.width, canvas.height, 1>>]
        ELSE w1

(***************************************************************************)
(* lerp and animate                                                        *)
(***************************************************************************)
\* lerp with the two weights exchanged
lerpSwapped(start, end, amt) ==
    BigAdd(BigMulSmall(amt, start), BigMulSmall(BigSub(One, amt), end))

\* (1 - amt) * start + amt * end, for 0 <= amt <= 1
lerp(start, end, amt) ==
    BigAdd(BigMulSmall(BigSub(One, amt), start), BigMulSmall(amt, end))

\* the palette step with the next index taken from the index before the
\* advance
CycleStaleNext(t) ==
    IF t.palette.present /\ Len(t.palette.items) > 1
    THEN LET n      == Len(t.palette.items)
             sum    == FAdd(t.colorLerp, cycleSpeed)
             wrap   == BigGeq(sum, One)
             blend  == IF wrap THEN Zero ELSE sum
             index  == IF wrap THEN (t.colorIndex + 1) % n ELSE t.colorIndex
             next   == IF wrap THEN (t.colorIndex + 1) % n
                       ELSE t.colorNextIndex
             c1     == t.palette.items[index + 1]
             c2     == t.palette.items[next + 1]
         IN  [t EXCEPT !.colorLerp = blend,
                       !.colorIndex = index,
                       !.colorNextIndex = next,
                       !.color = <<lerp(c1[1], c2[1], blend),
                                   lerp(c1[2], c2[2], blend),
                                   lerp(c1[3], c2[3], blend)>>]
    ELSE t

\* the palette step with the blend factor advanced before the palette is
\* looked at
CycleAlwaysAccumulates(t) ==
    LET sum == FAdd(t.colorLerp, cycleSpeed)
    IN  IF t.palette.present /\ Len(t.palette.items) > 1
        THEN LET n      == Len(t.palette.items)
                 wrap   == BigGeq(sum, One)
                 blend  == IF wrap THEN Zero ELSE sum
                 index  == IF wrap THEN (t.colorIndex + 1) % n
                           ELSE t.colorIndex
                 next   == IF wrap THEN (index + 1) % n ELSE t.colorNextIndex
                 c1     == t.palette.items[index + 1]
                 c2     == t.palette.items[next + 1]
             IN  [t EXCEPT !.colorLerp = blend,
                           !.colorIndex = index,
                           !.colorNextIndex = next,
                           !.color = <<lerp(c1[1], c2[1], blend),
                                       lerp(c1[2], c2[2], blend),
                                       lerp(c1[3], c2[3], blend)>>]
        ELSE [t EXCEPT !.colorLerp = sum]

\* the palette step with the index advanced modulo length - 1
CycleShortModulus(t) ==
    IF t.palette.present /\ Len(t.palette.items) > 1
    THEN LET n      == Len(t.palette.items)
             sum    == FAdd(t.colorLerp, cycleSpeed)
             wrap   == BigGeq(sum, One)
             blend  == IF wrap THEN Zero ELSE sum
             index  == IF wrap THEN (t.colorIndex + 1) % (n - 1)
                       ELSE t.colorIndex
             next   == IF wrap THEN (index + 1) % n ELSE t.colorNextIndex
             c1     == t.palette.items[index + 1]
             c2     == t.palette.items[next + 1]
         IN  [t EXCEPT !.colorLerp = blend,
                       !.colorIndex = index,
                       !.colorNextIndex = next,
                       !.color = <<lerp(c1[1], c2[1], blend),
                                   lerp(c1[2], c2[2], blend),
                                   lerp(c1[3], c2[3], blend)>>]
    ELSE t

\* the palette step that advances the indices and keeps the sum as colorLerp
CycleKeepsSum(t) ==
    IF t.palette.present /\ Len(t.palette.items) > 1
    THEN LET n      == Len(t.palette.items)
             sum    == FAdd(t.colorLerp, cycleSpeed)
             wrap   == BigGeq(sum, One)
             index  == IF wrap THEN (t.colorIndex + 1) % n ELSE t.colorIndex
             next   == IF wrap THEN (index + 1) % n ELSE t.colorNextIndex
         IN  [t EXCEPT !.colorLerp = sum,
                       !.colorIndex = index,
                       !.colorNextIndex = next]
    ELSE t

\* the palette step that carries the excess over 1.0 into the next blend
CycleCarriesExcess(t) ==
    IF t.palette.present /\ Len(t.palette.items) > 1
    THEN LET n      == Len(t.palette.items)
             sum    == FAdd(t.colorLerp, cycleSpeed)
             wrap   == BigGeq(sum, One)
             blend  == IF wrap THEN BigSub(sum, One) ELSE sum
             index  == IF wrap THEN (t.colorIndex + 1) % n ELSE t.colorIndex
             next   == IF wrap THEN (index + 1) % n ELSE t.colorNextIndex
             c1     == t.palette.items[index + 1]
             c2     == t.palette.items[next + 1]
         IN  [t EXCEPT !.colorLerp = blend,
                       !.colorIndex = index,
                       !.colorNextIndex = next,
                       !.color = <<lerp(c1[1], c2[1], blend),
                                   lerp(c1[2], c2[2], blend),
                                   lerp(c1[3], c2[3], blend)>>]
    ELSE t

\* the palette step of animate: colorLerp, the indices and the colour
Cycle(t) ==
    IF t.palette.present /\ Len(t.palette.items) > 1
    THEN LET n      == Len(t.palette.items)
             sum    == FAdd(t.colorLerp, cycleSpeed)
             wrap   == BigGeq(sum, One)
             blend  == IF wrap THEN Zero ELSE sum
             index  == IF wrap THEN (t.colorIndex + 1) % n ELSE t.colorIndex
             next   == IF wrap THEN (index + 1) % n ELSE t.colorNextIndex
             c1     == t.palette.items[index + 1]
             c2     == t.palette.items[next + 1]
         IN  [t EXCEPT !.colorLerp = blend,
                       !.colorIndex = index,
                       !.colorNextIndex = next,
                       !.color = <<lerp(c1[1], c2[1], blend),
                                   lerp(c1[2], c2[2], blend),
                                   lerp(c1[3], c2[3], blend)>>]
    ELSE t

\* the handle requestAnimationFrame returns after handle id
NextHandle(id) == IF id = 1 THEN 2 ELSE 1

\* the frame body with the clock advanced after the uniforms are bound
animateBindsThenSteps(w) ==
    LET t0 == [w.this EXCEPT !.uTime = IF w.frames < MaxFrames
                                       THEN FAdd(@, TimeStep) ELSE @]
        t1 == Cycle(t0)
    IN  [w EXCEPT !.this = t1,
                  !.gl.uTime = w.this.uTime,
                  !.gl.uColor = t1.color,
                  !.gl.uMouse = t1.mousePos,
                  !.gl.uAmplitude = t1.amplitude,
                  !.gl.uSpeed = t1.speed,
                  !.gl.blend = TRUE,
                  !.window.raf = @ + 1,
                  !.rafId = NextHandle(@),
                  !.frames = IF @ < MaxFrames THEN @ + 1 ELSE @]

\* the frame body that puts the pointer offset back to the centre once bound
animateRecentresPointer(w) ==
    LET t0 == [w.this EXCEPT !.uTime = IF w.frames < MaxFrames
                                       THEN FAdd(@, TimeStep) ELSE @]
        t1 == Cycle(t0)
    IN  [w EXCEPT !.this = [t1 EXCEPT !.mousePos = [x |-> Half, y |-> Half]],
                  !.gl.uTime = t1.uTime,
                  !.gl.uColor = t1.color,
                  !.gl.uMouse = t1.mousePos,
                  !.gl.uAmplitude = t1.amplitude,
                  !.gl.uSpeed = t1.speed,
                  !.gl.blend = TRUE,
                  !.window.raf = @ + 1,
                  !.rafId = NextHandle(@),
                  !.frames = IF @ < MaxFrames THEN @ + 1 ELSE @]

\* the frame body without the request for the next frame
animateOnce(w) ==
    LET t0 == [w.this EXCEPT !.uTime = IF w.frames < MaxFrames
                                       THEN FAdd(@, TimeStep) ELSE @]
        t1 == Cycle(t0)
    IN  [w EXCEPT !.this = t1,
                  !.gl.uTime = t1.uTime,
                  !.gl.uColor = t1.color,
                  !.gl.uMouse = t1.mousePos,
                  !.gl.uAmplitude = t1.amplitude,
                  !.gl.uSpeed = t1.speed,
                  !.gl.blend = TRUE,
                  !.rafId = NextHandle(@),
                  !.frames = IF @ < MaxFrames THEN @ + 1 ELSE @]

\* the frame body
animate(w) ==
    LET t0 == [w.this EXCEPT !.uTime = IF w.frames < MaxFrames
                                       THEN FAdd(@, TimeStep) ELSE @]
        bind(t1) ==
            [w EXCEPT !.this = t1,
                      !.gl.uTime = t1.uTime,
                      !.gl.uColor = t1.color,
                      !.gl.uMouse = t1.mousePos,
                      !.gl.uAmplitude = t1.amplitude,
                      !.gl.uSpeed = t1.speed,
                      !.gl.blend = TRUE,
                      !.window.raf = @ + 1,
                      !.rafId = NextHandle(@),
                      !.frames = IF @ < MaxFrames THEN @ + 1 ELSE @]
    IN  bind(Cycle(t0))

(***************************************************************************)
(* createShader, createProgram, init, constructor                          *)
(***************************************************************************)
\* the shader, or null with the error logged
createShader(w, compiles) ==
    IF compiles THEN [w |-> w, shader |-> "shader"]
    ELSE [w |-> [w EXCEPT !.console = @ \cup {"Shader compile error"}],
          shader |-> "null"]

\* createProgram without the LINK_STATUS test
createProgramUnchecked(w, p) ==
    LET vs == createShader(w, p.vs)
        fs == createShader(vs.w, p.fs)
    IN  IF vs.shader = "null" \/ fs.shader = "null"
        THEN [w |-> fs.w, threw |-> TRUE, program |-> "undefined"]
        ELSE [w |-> fs.w, threw |-> FALSE, program |-> "program"]

\* attachShader(program, null) is a TypeError: the parameter is not nullable
createProgram(w, p) ==
    LET vs == createShader(w, p.vs)
        fs == createShader(vs.w, p.fs)
    IN  IF vs.shader = "null" \/ fs.shader = "null"
        THEN [w |-> fs.w, threw |-> TRUE, program |-> "undefined"]
        ELSE IF ~p.link
        THEN [w |-> [fs.w EXCEPT !.console = @ \cup {"Program link error"}],
              threw |-> FALSE, program |-> "null"]
        ELSE [w |-> fs.w, threw |-> FALSE, program |-> "program"]

\* init registering the mousemove listener whatever mouseReact is
initAlwaysListens(w, p, layout, dpr) ==
    LET w1 == resize(w, layout, dpr)
        w2 == [w1 EXCEPT !.window.resize = TRUE,
                         !.window.mousemove = TRUE]
        cp == createProgram(w2, p)
        w3 == [cp.w EXCEPT !.this.program = cp.program]
    IN  IF cp.threw THEN [cp.w EXCEPT !.status = "threw"]
        ELSE IF cp.program = "null" THEN [w3 EXCEPT !.status = "threw"]
        ELSE animate([resize(w3, layout, dpr) EXCEPT !.status = "running"])

\* getAttribLocation(null, ...) is a TypeError as well
init(w, p, layout, dpr) ==
    LET w1 == resize(w, layout, dpr)
        w2 == [w1 EXCEPT !.window.resize = TRUE,
                         !.window.mousemove = Truthy(w1.this.mouseReact)]
        cp == createProgram(w2, p)
        w3 == [cp.w EXCEPT !.this.program = cp.program]
    IN  IF cp.threw THEN [cp.w EXCEPT !.status = "threw"]
        ELSE IF cp.program = "null" THEN [w3 EXCEPT !.status = "threw"]
        ELSE animate([resize(w3, layout, dpr) EXCEPT !.status = "running"])

DefaultColor == <<255, 306, 408>>

\* the palette entries, strings converted
ToRgb(c) == IF c.tag = "string" THEN hexToRgb(c.s) ELSE c.v

constructor(o, p, layout, dpr) ==
    LET color0   == IF Truthy(o.color) THEN o.color ELSE Arr(DefaultColor)
        palette0 == IF Truthy(o.colors)
                    THEN [present |-> TRUE, items |-> o.colors.v]
                    ELSE [present |-> FALSE, items |-> <<>>]
        palette  == IF palette0.present /\ Len(palette0.items) > 0
                    THEN [present |-> TRUE,
                          items |-> [i \in 1..Len(palette0.items) |->
                                        ToRgb(palette0.items[i])]]
                    ELSE palette0
        color    == IF color0.tag = "string" THEN hexToRgb(color0.s)
                    ELSE color0.v
        t == [color          |-> ExactRgb(color),
              palette        |-> palette,
              speed          |-> IF Truthy(o.speed) THEN o.speed.n ELSE 100,
              amplitude      |-> IF Truthy(o.amplitude) THEN o.amplitude.n
                                 ELSE 10,
              mouseReact     |-> IF o.mouseReact.tag # "undefined"
                                 THEN o.mouseReact ELSE Bool(TRUE),
              mousePos       |-> [x |-> Half, y |-> Half],
              uTime          |-> Zero,
              colorIndex     |-> 0,
              colorNextIndex |-> 1,
              colorLerp      |-> Zero,
              canvas         |-> [width |-> 300, height |-> 150],
              program        |-> "undefined"]
        w == [this |-> t, gl |-> GlInit,
              window |-> [resize |-> FALSE, mousemove |-> FALSE, raf |-> 0],
              console |-> {}, status |-> "nogl", rafId |-> 0, frames |-> 0]
    IN  IF ~p.context
        THEN [w EXCEPT !.console = @ \cup {"WebGL not supported"}]
        ELSE init(w, p, layout, dpr)

(***************************************************************************)
(* The specification                                                       *)
(***************************************************************************)
Become(w) ==
    /\ this' = w.this
    /\ gl' = w.gl
    /\ window' = w.window
    /\ console' = w.console
    /\ status' = w.status
    /\ rafId' = w.rafId
    /\ frames' = w.frames

Init ==
    \E o \in OptionSets, p \in Platforms, layout \in Layouts,
       dpr \in DprHalves :
        LET w == constructor(o, p, layout, dpr)
        IN  /\ options = o
            /\ platform = p
            /\ this = w.this
            /\ gl = w.gl
            /\ window = w.window
            /\ console = w.console
            /\ status = w.status
            /\ rafId = w.rafId
            /\ frames = w.frames
            /\ lastMove = [seen |-> FALSE, e |-> Move(0, 0, EmptyBox)]
            /\ lastResize = [layout |-> layout, dpr |-> dpr]
            /\ other = [present |-> FALSE]

\* the browser runs a pending requestAnimationFrame callback
Animate ==
    /\ window.raf > 0
    /\ Become(animate([World EXCEPT !.window.raf = @ - 1]))
    /\ UNCHANGED <<options, platform, lastMove, lastResize, other>>

\* the window's resize event, with the layout of that moment
Resize ==
    /\ window.resize
    /\ \E layout \in Layouts, dpr \in DprHalves :
           /\ Become(resize(World, layout, dpr))
           /\ lastResize' = [layout |-> layout, dpr |-> dpr]
    /\ UNCHANGED <<options, platform, lastMove, other>>

\* the listener without the flip of the vertical axis
onMouseMoveNoFlip(w, e) ==
    [w EXCEPT !.this.mousePos =
        [x |-> Div(e.clientX - e.rect.left, e.rect.width),
         y |-> Div(e.clientY - e.rect.top, e.rect.height)]]

\* the listener of init
onMouseMove(w, e) ==
    [w EXCEPT !.this.mousePos =
        [x |-> Div(e.clientX - e.rect.left, e.rect.width),
         y |-> OneMinus(Div(e.clientY - e.rect.top, e.rect.height))]]

\* a mousemove event on window; the listener runs when it was registered
MouseMove ==
    /\ \E e \in MouseMoves :
           /\ lastMove' = [seen |-> TRUE, e |-> e]
           /\ IF window.mousemove
              THEN Become(onMouseMove(World, e))
              ELSE UNCHANGED <<this, gl, window, console, status, rafId,
                               frames>>
    /\ UNCHANGED <<options, platform, lastResize, other>>

Next == Animate \/ Resize \/ MouseMove

Spec == Init /\ [][Next]_vars

\* a pending frame callback fires: what every Animate step, and no other
\* step, does to the handle
FrameFires ==
    /\ window.raf > 0
    /\ rafId' = NextHandle(rafId)

\* the browser keeps firing the pending frame callback
LiveSpec == Spec /\ WF_rafId(FrameFires)

(***************************************************************************)
(* Two instances on one page                                               *)
(***************************************************************************)
\* frames each of the two instances runs in the specification of the pair
PairFrames == 3

\* the configurations and platforms of the pair
PairOptions ==
    { Options(Undefined, Undefined, Undefined),
      Options(Undefined, Arr(<<Str(HexViolet), Str(HexPink)>>), Undefined) }

PairPlatforms ==
    { Platform(TRUE, TRUE, TRUE, TRUE), Platform(TRUE, FALSE, TRUE, TRUE) }

\* the rectangle of the second instance's canvas
OtherBox == [left |-> 0, top |-> 0, width |-> 4, height |-> 4]

\* every variable but the second instance
varsThis == <<options, platform, this, gl, window, console, status, rafId,
              frames, lastMove, lastResize>>

\* window dispatches a resize event: the listener of each instance that
\* registered one runs, on its own instance and container
dispatchResize(w, o, layout, layoutOther, dpr) ==
    [first  |-> IF w.window.resize THEN resize(w, layout, dpr) ELSE w,
     second |-> IF o.present /\ o.w.window.resize
                THEN [o EXCEPT !.w = resize(@, layoutOther, dpr)]
                ELSE o]

\* the listeners writing to one mousePos object that the instances share
dispatchMouseMoveShared(w, o, e, eOther) ==
    LET w1 == IF w.window.mousemove THEN onMouseMove(w, e) ELSE w
    IN  IF o.present /\ o.w.window.mousemove
        THEN LET o1 == onMouseMove(o.w, eOther)
             IN  [first  |-> [w1 EXCEPT !.this.mousePos = o1.this.mousePos],
                  second |-> [o EXCEPT !.w = o1]]
        ELSE [first |-> w1, second |-> o]

\* window dispatches a mousemove event: the listener of each instance that
\* registered one runs, with the rectangle of its own canvas
dispatchMouseMove(w, o, e, eOther) ==
    [first  |-> IF w.window.mousemove THEN onMouseMove(w, e) ELSE w,
     second |-> IF o.present /\ o.w.window.mousemove
                THEN [o EXCEPT !.w = onMouseMove(@, eOther)]
                ELSE o]

PairInit ==
    /\ Init
    /\ options \in PairOptions
    /\ platform = Platform(TRUE, TRUE, TRUE, TRUE)

\* new Iridescence(...) for a second container of the page
Construct ==
    /\ ~other.present
    /\ \E o \in PairOptions, p \in PairPlatforms, layout \in Layouts :
           other' = [present |-> TRUE,
                     w |-> constructor(o, p, layout, lastResize.dpr)]
    /\ UNCHANGED varsThis

\* a frame of the first instance
PairAnimate ==
    /\ frames < PairFrames
    /\ Animate

\* a frame of the second instance
AnimateOther ==
    /\ other.present
    /\ other.w.window.raf > 0
    /\ other.w.frames < PairFrames
    /\ other' = [other EXCEPT
                    !.w = animate([@ EXCEPT !.window.raf = @ - 1])]
    /\ UNCHANGED varsThis

PairResize ==
    \E layout \in Layouts, layoutOther \in Layouts, dpr \in DprHalves :
        LET r == dispatchResize(World, other, layout, layoutOther, dpr)
        IN  /\ Become(r.first)
            /\ other' = r.second
            /\ lastResize' = IF window.resize
                             THEN [layout |-> layout, dpr |-> dpr]
                             ELSE lastResize
            /\ UNCHANGED <<options, platform, lastMove>>

PairMouseMove ==
    \E e \in MouseMoves :
        LET eOther == Move(e.clientX, e.clientY, OtherBox)
            r      == dispatchMouseMove(World, other, e, eOther)
        IN  /\ Become(r.first)
            /\ other' = r.second
            /\ lastMove' = [seen |-> TRUE, e |-> e]
            /\ UNCHANGED <<options, platform, lastResize>>

PairNext ==
    PairAnimate \/ AnimateOther \/ Construct \/ PairResize \/ PairMouseMove

PairSpec == PairInit /\ [][PairNext]_vars

(***************************************************************************)
(* Properties                                                              *)
(***************************************************************************)
Running == status = "running"

PaletteLength == Len(this.palette.items)

Current == this.palette.items[this.colorIndex + 1]

Following == this.palette.items[this.colorNextIndex + 1]

Centre == [x |-> Half, y |-> Half]

\* ceil(1 / 0.0025)
FramesPerColor == 400

\* C1: with a palette of two or more colours, after every block of
\* ceil(1/r) = 400 frames the current index has advanced by exactly one
\* (mod N) and the blend factor is back in [0, r).
C1_IndexAdvancesEvery400Frames ==
    (/\ Running
     /\ PaletteLength >= 2
     /\ frames > 0
     /\ frames < MaxFrames
     /\ frames % FramesPerColor = 0)
        => /\ this.colorIndex = (frames \div FramesPerColor) % PaletteLength
           /\ BigLess(this.colorLerp, cycleSpeed)

\* C2 as stated: with a palette of any length >= 1, nextIndex is
\* (currentIndex + 1) mod paletteLength in every state.
C2_NextFollowsCurrentAnyLength ==
    (this.palette.present /\ PaletteLength >= 1)
        => this.colorNextIndex = (this.colorIndex + 1) % PaletteLength

\* C2 amended: with a palette of two or more colours, nextIndex is
\* (currentIndex + 1) mod paletteLength in every state.
C2_NextFollowsCurrent ==
    (this.palette.present /\ PaletteLength >= 2)
        => this.colorNextIndex = (this.colorIndex + 1) % PaletteLength

\* the last colour of a three-colour palette is current and blends into the
\* first
C2_Witness ==
    /\ Running
    /\ PaletteLength = 3
    /\ this.colorIndex = 2
    /\ this.colorNextIndex = 0

\* C3: with a one-colour palette no step changes the indices or the blend
\* factor, and the colour bound to the shader stays the same.
C3_SingleColorIsStatic ==
    [][(this.palette.present /\ PaletteLength = 1)
          => /\ this'.colorIndex = this.colorIndex
             /\ this'.colorNextIndex = this.colorNextIndex
             /\ this'.colorLerp = this.colorLerp
             /\ gl'.uColor = gl.uColor]_vars

\* several frames of an engine with a one-colour palette have run
C3_Witness ==
    /\ Running
    /\ this.palette.present
    /\ PaletteLength = 1
    /\ frames >= 3
    /\ gl.uColor = this.color

\* C4: with a one-colour palette the colour bound in every frame is that
\* palette entry, whatever the base colour.
C4_SingleColorIsBound ==
    (Running /\ this.palette.present /\ PaletteLength = 1)
        => gl.uColor = ExactRgb(this.palette.items[1])

\* C5: with two or more colours the bound colour c satisfies, per channel,
\* c + b * current = current + b * following for the blend factor b of the
\* state, i.e. c = (1 - b) * current + b * following; at b = 0 it is the
\* current palette entry.
C5_BoundColorIsInterpolation ==
    (Running /\ PaletteLength >= 2)
        => /\ \A i \in 1..3 :
                BigAdd(gl.uColor[i], BigMulSmall(this.colorLerp, Current[i]))
                  = BigAdd(Exact(Current[i]),
                           BigMulSmall(this.colorLerp, Following[i]))
           /\ this.colorLerp = Zero => gl.uColor = ExactRgb(Current)

\* the frame that wraps to the second colour binds exactly that colour, and
\* it differs from the colour that follows
C5_Witness ==
    /\ Running
    /\ PaletteLength >= 2
    /\ this.colorLerp = Zero
    /\ this.colorIndex = 1
    /\ gl.uColor = ExactRgb(this.palette.items[2])
    /\ Current # Following

\* C6: with two or more colours and frame callbacks that keep firing, the
\* current index only ever moves to its cyclic successor (with the next
\* index one ahead, so N-1 is followed by 0 with next index 1), and every
\* index of the palette is current again and again.
C6_TraversalNeverEnds ==
    /\ [][(PaletteLength >= 2 /\ this'.colorIndex # this.colorIndex)
             => /\ this'.colorIndex = (this.colorIndex + 1) % PaletteLength
                /\ this'.colorNextIndex
                     = (this'.colorIndex + 1) % PaletteLength
                /\ this.colorIndex = PaletteLength - 1
                     => (this'.colorIndex = 0 /\ this'.colorNextIndex = 1)
          ]_vars
    /\ \A i \in 0..2 :
           [](Running /\ PaletteLength >= 2 /\ i < PaletteLength
                 => <>(this.colorIndex = i))

\* a three-colour palette is back at its first colour after a full round
C6_Witness ==
    /\ Running
    /\ PaletteLength = 3
    /\ frames = MaxFrames
    /\ this.colorIndex = 0
    /\ this.colorNextIndex = 1
    /\ this.colorLerp # Zero

PlatformFails ==
    ~platform.context \/ ~platform.vs \/ ~platform.fs \/ ~platform.link

\* C7: without a rendering context, or when a shader does not compile or the
\* program does not link, the error is reported, the engine is never
\* running, no frame body runs and no frame callback is scheduled.
C7_PlatformFailureNeverRuns ==
    PlatformFails
        => /\ ~Running
           /\ frames = 0
           /\ window.raf = 0
           /\ ~platform.context => "WebGL not supported" \in console
           /\ (platform.context /\ (~platform.vs \/ ~platform.fs))
                 => "Shader compile error" \in console
           /\ (platform.context /\ platform.vs /\ platform.fs)
                 => "Program link error" \in console

\* after a link failure the window's events still reach the instance, and
\* still no frame has run
C7_Witness ==
    /\ ~platform.link
    /\ "Program link error" \in console
    /\ lastMove.seen
    /\ this.canvas.width = 600
    /\ frames = 0
    /\ window.raf = 0

\* "#RRGGBB" or "RRGGBB"
WellFormedHex(chars) ==
    LET digits == IF chars # <<>> /\ Head(chars) = "#" THEN Tail(chars)
                  ELSE chars
    IN  Len(digits) = 6 /\ \A i \in 1..6 : IsHexDigit(digits[i])

Malformed(c) == c.tag = "string" /\ ~WellFormedHex(c.s)

ConfigurationError ==
    \/ Malformed(options.color)
    \/ /\ options.colors.tag = "array"
       /\ \/ options.colors.v = <<>>
          \/ \E i \in 1..Len(options.colors.v) : Malformed(options.colors.v[i])

\* C8: construction with a malformed hex colour or an empty palette is
\* reported, no frame body runs and no frame callback is scheduled.
C8_ConfigurationErrorNeverRuns ==
    ConfigurationError
        => /\ console # {}
           /\ frames = 0
           /\ window.raf = 0

\* C9: with pointer reactivity disabled the pointer offset is (0.5, 0.5) in
\* every state, and so is the offset bound by every frame.
C9_DisabledPointerStaysCentred ==
    (options.mouseReact.tag = "boolean" /\ ~options.mouseReact.b)
        => /\ this.mousePos = Centre
           /\ frames > 0 => gl.uMouse = Centre

\* frames have run after a mousemove away from the centre
C9_Witness ==
    /\ options.mouseReact.tag = "boolean"
    /\ ~options.mouseReact.b
    /\ Running
    /\ lastMove = [seen |-> TRUE, e |-> Move(3, 3, Box)]
    /\ this.canvas.width = 450
    /\ frames = MaxFrames

\* C10: with pointer reactivity enabled and a canvas rectangle of positive
\* width and height, after a mousemove the offset is
\* ((clientX - left) / width, 1 - (clientY - top) / height): (0, 1) at the
\* top left corner, (1, 0) at the bottom right corner, (0.5, 0.5) at the
\* centre, and outside the rectangle the offset leaves [0, 1].
C10_PointerOffset ==
    LET e == lastMove.e
        x == this.mousePos.x
        y == this.mousePos.y
    IN  (/\ window.mousemove
         /\ lastMove.seen
         /\ e.rect.width > 0
         /\ e.rect.height > 0)
            => /\ x.d > 0
               /\ y.d > 0
               /\ x.n * e.rect.width = (e.clientX - e.rect.left) * x.d
               /\ (y.d - y.n) * e.rect.height = (e.clientY - e.rect.top) * y.d
               /\ e = Move(1, 1, Box)
                    => this.mousePos = [x |-> [n |-> 0, d |-> 1],
                                        y |-> [n |-> 1, d |-> 1]]
               /\ e = Move(3, 3, Box)
                    => this.mousePos = [x |-> [n |-> 1, d |-> 1],
                                        y |-> [n |-> 0, d |-> 1]]
               /\ e = Move(2, 2, Box) => this.mousePos = Centre
               /\ e = Move(0, 4, Box)
                    => this.mousePos = [x |-> [n |-> 0 - 1, d |-> 2],
                                        y |-> [n |-> 0 - 1, d |-> 2]]

\* a frame has bound the offset of a mousemove outside the rectangle
C10_Witness ==
    /\ Running
    /\ window.mousemove
    /\ lastMove = [seen |-> TRUE, e |-> Move(0, 4, Box)]
    /\ this.mousePos.x.n < 0
    /\ gl.uMouse = this.mousePos

\* C13: at most one frame callback is pending at any time.  The engine is
\* running or not from construction on and never changes that; while it
\* runs exactly one callback is pending after every frame body; and a step
\* that is not a frame body (resize, mousemove) neither requests a callback
\* nor does anything a frame body does.
C13_OneFrameCallback ==
    /\ [](window.raf = IF Running THEN 1 ELSE 0)
    /\ [][/\ status' = status
          /\ IF rafId' # rafId
             THEN /\ window.raf = 1
                  /\ window.raf' = 1
                  /\ frames < MaxFrames => frames' = frames + 1
             ELSE /\ window.raf' = window.raf
                  /\ frames' = frames
                  /\ this.uTime' = this.uTime
                  /\ this.colorLerp' = this.colorLerp
                  /\ gl.uTime' = gl.uTime
                  /\ gl.uColor' = gl.uColor]_vars

\* frames have run with a resize and a mousemove among them
C13_Witness ==
    /\ Running
    /\ window.raf = 1
    /\ frames = 3
    /\ lastMove.seen
    /\ lastResize = [layout |-> <<3, 1>>, dpr |-> 3]
    /\ this.canvas = [width |-> 4, height |-> 1]

\* C14: colorLerp is in [0, 1] in every reachable state: never above 1.0,
\* never negative.
C14_BlendInUnitInterval ==
    /\ BigGeq(One, this.colorLerp)
    /\ BigGeq(this.colorLerp, Zero)
    /\ \A i \in 1..4 : this.colorLerp[i] >= 0

\* the blend of a palette is one more step away from passing 1.0
C14_Witness ==
    /\ Running
    /\ PaletteLength >= 2
    /\ BigLess(this.colorLerp, One)
    /\ BigGeq(FAdd(this.colorLerp, cycleSpeed), One)

\* C15: with a palette of N >= 2 colours a frame changes the indices if and
\* only if colorLerp + cycleSpeed (the sum animate computes, a double) is
\* at least 1.0; in that frame colorLerp becomes 0 and both indices advance
\* by one modulo N; in every other frame the indices stay and colorLerp
\* becomes that sum.
C15_FrameStep ==
    [][(rafId' # rafId /\ PaletteLength >= 2) =>
          LET sum == FAdd(this.colorLerp, cycleSpeed)
              n   == PaletteLength
          IN  /\ (this.colorIndex' # this.colorIndex) <=> BigGeq(sum, One)
              /\ (this.colorNextIndex' # this.colorNextIndex)
                    <=> BigGeq(sum, One)
              /\ IF BigGeq(sum, One)
                 THEN /\ this.colorLerp' = Zero
                      /\ this.colorIndex' = (this.colorIndex + 1) % n
                      /\ this.colorNextIndex'
                            = (this.colorNextIndex + 1) % n
                 ELSE /\ this.colorLerp' = sum
                      /\ BigLess(this.colorLerp, this.colorLerp')]_vars

\* the frame after the one that advanced the indices of three colours
C15_Witness ==
    /\ Running
    /\ PaletteLength = 3
    /\ frames = 402
    /\ this.colorIndex = 1
    /\ this.colorNextIndex = 2
    /\ this.colorLerp = cycleSpeed

\* the double k * 0.01, as the product of the doubles k and 0.01
TimesStep(k) == RoundDouble(BigMulSmall(TimeStep, k))

\* C16 as stated: the k-th frame binds the time k * 0.01.
C16_KthFrameBindsKTimesStep ==
    (Running /\ frames < MaxFrames) => gl.uTime = TimesStep(frames)

\* C16: uTime is 0 at construction and every frame replaces it by the
\* double uTime + 0.01 before binding it, so the k-th frame binds the sum
\* of k steps accumulated in double arithmetic: that is k * 0.01 for the
\* first five frames and differs from it in the last place at the sixth.
\* uTime never decreases, and no step other than a frame changes it.
C16_ClockSteps ==
    /\ [](frames < MaxFrames =>
            /\ ~Running => frames = 0 /\ this.uTime = Zero
            /\ Running => gl.uTime = this.uTime
            /\ frames = 1 => this.uTime = TimeStep
            /\ frames \in 1..5 => this.uTime = TimesStep(frames)
            /\ frames = 6 => BigLess(TimesStep(6), this.uTime))
    /\ [][IF rafId' # rafId /\ frames < MaxFrames
          THEN /\ this.uTime' = FAdd(this.uTime, TimeStep)
               /\ gl.uTime' = this.uTime'
               /\ BigLess(this.uTime, this.uTime')
          ELSE this.uTime' = this.uTime]_vars

\* the sixth frame has run after a resize and a mousemove
C16_Witness ==
    /\ Running
    /\ frames = 6
    /\ gl.uTime # TimesStep(6)
    /\ lastMove.seen
    /\ this.canvas = [width |-> 450, height |-> 225]

\* C17: mousePos is written by the mousemove listener and by nothing else:
\* it is the offset of the last mousemove the listener saw, or (0.5, 0.5)
\* when there was none.  A frame binds the value mousePos has when the frame
\* starts and leaves it; between frames the bound value stays, so a
\* mousemove between two frames shows in the second.
C17_PointerOffsetBinding ==
    /\ [](this.mousePos = IF window.mousemove /\ lastMove.seen
                           THEN onMouseMove(World, lastMove.e).this.mousePos
                           ELSE Centre)
    /\ [][/\ this.mousePos' # this.mousePos
                => /\ lastMove' # lastMove
                   /\ window.mousemove
                   /\ rafId' = rafId
          /\ IF rafId' # rafId
             THEN /\ gl.uMouse' = this.mousePos
                  /\ this.mousePos' = this.mousePos
             ELSE gl.uMouse' = gl.uMouse]_vars

\* a frame has bound the offset of one mousemove and a later mousemove
\* waits for the next frame
C17_Witness ==
    /\ Running
    /\ window.mousemove
    /\ frames = 3
    /\ gl.uMouse = [x |-> [n |-> 0, d |-> 1], y |-> [n |-> 1, d |-> 1]]
    /\ lastMove = [seen |-> TRUE, e |-> Move(3, 3, Box)]
    /\ this.mousePos = [x |-> [n |-> 1, d |-> 1], y |-> [n |-> 0, d |-> 1]]

\* C18: while the engine runs, the backing size of the canvas and the
\* resolution uniform are, in every state and so at every draw, the
\* container size times the pixel ratio that the last resize (of init or of
\* a resize event) read, per axis, as the integer part of the product, with
\* 1 as the third component: (300, 150) at ratio 2 gives (600, 300).  A
\* frame changes neither.
C18_BackingSizeAndResolution ==
    /\ [](Running =>
            LET layout == lastResize.layout
                ratio  == PixelRatio(lastResize.dpr)
                width  == this.canvas.width
                height == this.canvas.height
            IN  /\ 2 * width <= layout[1] * ratio
                /\ layout[1] * ratio < 2 * width + 2
                /\ 2 * height <= layout[2] * ratio
                /\ layout[2] * ratio < 2 * height + 2
                /\ gl.uResolution = <<width, height, 1>>
                /\ gl.viewport = <<width, height>>
                /\ (layout = <<300, 150>> /\ lastResize.dpr = 4)
                      => gl.uResolution = <<600, 300, 1>>)
    /\ [][rafId' # rafId => /\ this.canvas' = this.canvas
                            /\ gl.uResolution' = gl.uResolution
                            /\ lastResize' = lastResize]_vars

\* frames have run since a resize event at ratio 2 that followed another
\* size
C18_Witness ==
    /\ Running
    /\ frames = 4
    /\ lastResize = [layout |-> <<300, 150>>, dpr |-> 4]
    /\ gl.uResolution = <<600, 300, 1>>
    /\ gl.uTime = this.uTime
    /\ lastMove.seen

\* C19: the amplitude and the speed bound in every frame are the values the
\* options supplied, for every supplied amplitude >= 0 (0 included) and
\* speed > 0, and the defaults 0.1 and 1.0 when the option is omitted.
C19_BoundAsConfigured ==
    Running =>
        /\ gl.uAmplitude = IF options.amplitude.tag = "number"
                           THEN options.amplitude.n ELSE 10
        /\ gl.uSpeed = IF options.speed.tag = "number"
                       THEN options.speed.n ELSE 100

\* C20: a running engine never stops.  Every frame body leaves one request
\* for the next frame behind, and when the browser keeps firing pending
\* frame callbacks, whatever handle the last request returned is replaced
\* by the handle of a later frame: frames occur again and again, whatever
\* resize and mousemove events come between.
C20_LoopNeverEnds ==
    /\ [][rafId' # rafId => (window.raf = 1 /\ window.raf' = 1)]_vars
    /\ \A id \in {1, 2} : [](Running /\ rafId = id => <>(rafId # id))

\* the frame counter is full, with a resize and a mousemove on the way, and
\* the next frame is requested
C20_Witness ==
    /\ Running
    /\ frames = MaxFrames
    /\ window.raf = 1
    /\ lastMove = [seen |-> TRUE, e |-> Move(2, 2, Box)]
    /\ lastResize = [layout |-> <<3, 1>>, dpr |-> 4]

\* the states after each of n frames in a row, w being the state after the
\* first of them, when nothing happens but frames
RECURSIVE FramesAlone(_, _)
FramesAlone(w, n) ==
    IF n = 1 THEN <<w>>
    ELSE LET half   == n \div 2
             first  == FramesAlone(w, half)
             second == FramesAlone(animate(first[half]), n - half)
         IN  first \o second

\* for each configuration, the frames of an engine left alone
Reference ==
    [o \in OptionSets |->
        FramesAlone(constructor(o, Platform(TRUE, TRUE, TRUE, TRUE),
                                <<300, 150>>, 4),
                    MaxFrames)]

\* the uniforms frame k binds, given the configuration, the last mousemove
\* and the last resize before the frame
Uniforms(o, k, move, size) ==
    LET canvas == BackingSize(size.layout, size.dpr)
        t      == Reference[o][1].this
    IN  [uTime       |-> Reference[o][k].gl.uTime,
         uColor      |-> Reference[o][k].gl.uColor,
         uMouse      |-> IF t.mouseReact.b /\ move.seen
                         THEN onMouseMove([this |-> t], move.e).this.mousePos
                         ELSE t.mousePos,
         uResolution |-> <<canvas.width, canvas.height, 1>>,
         uAmplitude  |-> t.amplitude,
         uSpeed      |-> t.speed]

\* C12: the engine is deterministic.  The uniforms a frame binds are a
\* function of the configuration, the number of the frame, the last
\* mousemove and the last resize before it: the time and the colour of frame
\* k are those of frame k of an engine of the same configuration that saw
\* nothing but frames, whatever events came between.  Two engines with the
\* same configuration and the same events therefore bind the same values
\* frame by frame.
C12_UniformsAreAFunctionOfTheEvents ==
    /\ []((Running /\ frames < MaxFrames) =>
            \A u \in {"uTime", "uColor", "uResolution", "uAmplitude",
                       "uSpeed"} :
                gl[u] = Uniforms(options, frames, lastMove, lastResize)[u])
    /\ []((Running /\ frames = 1) => gl.uMouse = Centre)
    /\ [][rafId' # rafId =>
            gl.uMouse' = Uniforms(options, 1, lastMove, lastResize).uMouse
         ]_vars

\* a three-colour palette after a round of its first colour, with a resize
\* and a mousemove on the way
C12_Witness ==
    /\ Running
    /\ PaletteLength = 3
    /\ frames = 402
    /\ this.colorIndex = 1
    /\ lastMove.seen
    /\ lastResize = [layout |-> <<3, 1>>, dpr |-> 0]
    /\ gl.uTime = Reference[options][402].gl.uTime

\* a step of the first instance when it is the only one: a frame, a resize
\* event, a mousemove event, or nothing
StepAlone ==
    \/ /\ window.raf > 0
       /\ Become(animate([World EXCEPT !.window.raf = @ - 1]))
       /\ UNCHANGED <<options, platform, lastMove, lastResize>>
    \/ /\ window.resize
       /\ \E layout \in Layouts, dpr \in DprHalves :
              /\ Become(resize(World, layout, dpr))
              /\ lastResize' = [layout |-> layout, dpr |-> dpr]
       /\ UNCHANGED <<options, platform, lastMove>>
    \/ /\ \E e \in MouseMoves :
              /\ lastMove' = [seen |-> TRUE, e |-> e]
              /\ IF window.mousemove
                 THEN Become(onMouseMove(World, e))
                 ELSE UNCHANGED <<this, gl, window, console, status, rafId,
                                  frames>>
       /\ UNCHANGED <<options, platform, lastResize>>
    \/ UNCHANGED varsThis

\* C11: two instances on one page do not interfere.  Under every
\* interleaving of the frames of the two with the resize and mousemove
\* events both receive, every step leaves the first instance (clock,
\* palette indices, blend, colour, pointer offset, backing size, uniforms)
\* as a step of that instance alone would: its own frame, its own handling
\* of the event, or no change at all when the step is the other's.
C11_NoInterference == [][StepAlone]_vars

\* both instances have run their frames, with different palettes, canvases
\* and pointer offsets
C11_Witness ==
    /\ Running
    /\ frames = PairFrames
    /\ other.present
    /\ other.w.status = "running"
    /\ other.w.frames = PairFrames
    /\ other.w.this.palette # this.palette
    /\ other.w.this.canvas # this.canvas
    /\ lastMove.seen
    /\ other.w.this.mousePos # this.mousePos
    /\ other.w.gl.uMouse # gl.uMouse

====
